---- MODULE Spec2Model ----
(***************************************************************************)
(* Model of services/safety_filter.py: the lazily loaded, process-wide     *)
(* banned-pesticide dataset (_BANNED_DATA), the crop rule resolver, the    *)
(* alias-aware text scanner, the RAG evidence annotator and the auditor    *)
(* instruction generator.                                                  *)
(*                                                                         *)
(* Python strings are sequences of one-character strings, so that strip(), *)
(* lower(), upper(), "in" and re.search are computed and not assumed.      *)
(* Python dicts are functions whose domain is the set of keys present.     *)
(***************************************************************************)
EXTENDS Integers, Sequences, FiniteSets, TLC

VARIABLES
    file,          \* what is at _BANNED_DATA_PATH right now
    BANNED_DATA,   \* the module global _BANNED_DATA
    last,          \* the last completed public call: its arguments and outcome
    pc,            \* per thread: position inside _load_banned_data
    parsed,        \* per thread: the value json.load returned, not yet stored
    ret,           \* per thread: outcome of its last completed load call
    firstWave,     \* per thread: its current call began before any call completed
    calls,         \* per thread: number of load calls begun
    completed,     \* some load call has completed (returned or raised)
    raceReads,     \* reads of the file made by first-wave calls
    lateReads,     \* reads of the file made by calls begun after a completion
    fileChanges    \* number of times the environment replaced the file

vars == <<file, BANNED_DATA, last, pc, parsed, ret, firstWave, calls,
          completed, raceReads, lateReads, fileChanges>>

loadVars == <<pc, parsed, ret, firstWave, calls, completed, raceReads,
              lateReads, fileChanges>>

----------------------------------------------------------------------------
(* Bounds of the model.                                                    *)

NThreads == 2
MaxCalls == 2
MaxFileChanges == 1
MaxChems == 2
MaxResults == 1

----------------------------------------------------------------------------
(* Characters and strings.                                                 *)

UpperLetters == <<"A","B","C","D","E","F","G","H","I","J","K","L","M",
                  "N","O","P","Q","R","S","T","U","V","W","X","Y","Z">>
LowerLetters == <<"a","b","c","d","e","f","g","h","i","j","k","l","m",
                  "n","o","p","q","r","s","t","u","v","w","x","y","z">>
Whitespace == {" "}

ToLower == [c \in {UpperLetters[i] : i \in 1..26} |->
               LowerLetters[CHOOSE i \in 1..26 : UpperLetters[i] = c]]
ToUpper == [c \in {LowerLetters[i] : i \in 1..26} |->
               UpperLetters[CHOOSE i \in 1..26 : LowerLetters[i] = c]]

LowerChar(c) == IF c \in DOMAIN ToLower THEN ToLower[c] ELSE c
UpperChar(c) == IF c \in DOMAIN ToUpper THEN ToUpper[c] ELSE c

Lower(s) == [i \in 1..Len(s) |-> LowerChar(s[i])]
Upper(s) == [i \in 1..Len(s) |-> UpperChar(s[i])]

RECURSIVE LStrip(_)
LStrip(s) == IF s # <<>> /\ Head(s) \in Whitespace THEN LStrip(Tail(s)) ELSE s

RECURSIVE RStrip(_)
RStrip(s) ==
    IF s # <<>> /\ s[Len(s)] \in Whitespace
    THEN RStrip(SubSeq(s, 1, Len(s) - 1))
    ELSE s

Strip(s) == RStrip(LStrip(s))

\* a in b, for Python strings
IsSubstr(a, b) ==
    \E i \in 0..(Len(b) - Len(a)) : SubSeq(b, i + 1, i + Len(a)) = a

\* re.compile(re.escape(n), re.IGNORECASE).search(text)
PatternSearch(n, text) == IsSubstr(Lower(n), Lower(text))

sEmpty == <<>>
sCotton == <<"C", "o", "t", "t", "o", "n">>
sCottonLower == <<"c", "o", "t", "t", "o", "n">>
sCottonFarming == <<"c", "o", "t", "t", "o", "n", " ", "f", "a", "r", "m", "i", "n", "g">>
sCottonPadded == <<" ", "C", "O", "T", "T", "O", "N", " ">>
sWheat == <<"w", "h", "e", "a", "t">>
sWheatPadded == <<" ", "W", "h", "e", "a", "t", " ">>
sEndosulfan == <<"E", "n", "d", "o", "s", "u", "l", "f", "a", "n">>
sEndosulfanLower == <<"e", "n", "d", "o", "s", "u", "l", "f", "a", "n">>
sThiodan == <<"T", "h", "i", "o", "d", "a", "n">>
sThionex == <<"T", "h", "i", "o", "n", "e", "x">>
sPhorate == <<"P", "h", "o", "r", "a", "t", "e">>
sMonocrotophos == <<"M", "o", "n", "o", "c", "r", "o", "t", "o", "p", "h", "o", "s">>
sMonocil == <<"M", "o", "n", "o", "c", "i", "l">>
sNotForCotton == <<"n", "o", "t", " ", "f", "o", "r", " ", "c", "o", "t", "t", "o", "n">>
sNotForWheat == <<"n", "o", "t", " ", "f", "o", "r", " ", "w", "h", "e", "a", "t">>
sSeedOnly == <<"s", "e", "e", "d", " ", "o", "n", "l", "y">>
sNotification == <<"S", "O", " ", "1">>
tAliasOnly == <<"u", "s", "e", " ", "T", "h", "i", "o", "d", "a", "n">>
tNameAndAlias == <<"E", "n", "d", "o", "s", "u", "l", "f", "a", "n", " ", "o", "r", " ", "T", "h", "i", "o", "d", "a", "n">>
tSecondAlias == <<"t", "h", "i", "o", "n", "e", "x", " ", "d", "u", "s", "t">>
tMixed == <<"m", "o", "n", "o", "c", "i", "l", " ", "a", "n", "d", " ", "P", "H", "O", "R", "A", "T", "E">>
tClean == <<"w", "a", "t", "e", "r">>

\* The literal strings of get_banned_chemicals_for_crop.
sRestrictedPrefix == <<"R", "e", "s", "t", "r", "i", "c", "t", "e", "d", ":", " ">>
sReasonBanned == <<"C", "o", "m", "p", "l", "e", "t", "e", "l", "y", " ", "b", "a", "n", "n", "e", "d", " ", "i", "n", " ", "I", "n", "d", "i", "a">>
sReasonExport == <<"B", "a", "n", "n", "e", "d", " ", "f", "o", "r", " ", "d", "o", "m", "e", "s", "t", "i", "c", " ", "u", "s", "e", " ", "i", "n", " ", "I", "n", "d", "i", "a">>
sReasonWithdrawn == <<"W", "i", "t", "h", "d", "r", "a", "w", "n", " ", "f", "r", "o", "m", " ", "u", "s", "e", " ", "i", "n", " ", "I", "n", "d", "i", "a">>
sReasonRefused == <<"N", "e", "v", "e", "r", " ", "r", "e", "g", "i", "s", "t", "e", "r", "e", "d", " ", "i", "n", " ", "I", "n", "d", "i", "a">>

----------------------------------------------------------------------------
(* Python values: None, and dicts as functions over the keys present.      *)

PyNone == [tag |-> "None"]
PyDict(d) == [tag |-> "dict", items |-> d]
EmptyDict == <<>>

\* bool(v) for the values _BANNED_DATA can hold
Truthy(v) == v.tag = "dict" /\ DOMAIN v.items # {}

\* d.get(k, default)
Get(d, k, default) == IF k \in DOMAIN d THEN d[k] ELSE default

RECURSIVE Concat(_)
Concat(ss) == IF ss = <<>> THEN <<>> ELSE Head(ss) \o Concat(Tail(ss))

----------------------------------------------------------------------------
(* _normalize, _crop_matches                                               *)

_normalize(s) == Lower(Strip(s))

\* _crop_matches with line 60 testing only "b in c"
crop_matches_one_way(crop, banned_crop) ==
    LET c == _normalize(crop)
        b == _normalize(banned_crop)
    IN  IF c = sEmpty \/ b = sEmpty THEN FALSE
        ELSE IF c = b THEN TRUE
        ELSE IsSubstr(b, c)

\* _crop_matches without the test of line 54
crop_matches_without_empty_check(crop, banned_crop) ==
    LET c == _normalize(crop)
        b == _normalize(banned_crop)
    IN  IF c = b THEN TRUE
        ELSE IF IsSubstr(b, c) \/ IsSubstr(c, b) THEN TRUE
        ELSE FALSE

_crop_matches(crop, banned_crop) ==
    LET c == _normalize(crop)
        b == _normalize(banned_crop)
    IN  IF c = sEmpty \/ b = sEmpty THEN FALSE
        ELSE IF c = b THEN TRUE
        ELSE IF IsSubstr(b, c) \/ IsSubstr(c, b) THEN TRUE
        ELSE FALSE

----------------------------------------------------------------------------
(* get_banned_chemicals_for_crop                                           *)

SectionKeys == <<"banned", "banned_for_export_only", "withdrawn",
                 "refused_registration", "restricted">>

\* data.get(key, {}).get("chemicals", [])
Chemicals(data, key) == Get(Get(data.items, key, EmptyDict), "chemicals", <<>>)

UniversalFinding(chem, reason, category) ==
    [name |-> Get(chem, "name", sEmpty), reason |-> reason, category |-> category]

UniversalFindings(chems, reason, category) ==
    [i \in 1..Len(chems) |-> UniversalFinding(chems[i], reason, category)]

RECURSIVE RestrictedFindings(_, _)
RestrictedFindings(chems, crop) ==
    IF chems = <<>> THEN <<>>
    ELSE LET chem == Head(chems)
             banned_crops == Get(chem, "banned_crops", <<>>)
             restriction == Get(chem, "restriction", sEmpty)
             crop_match == \E i \in 1..Len(banned_crops) :
                               _crop_matches(crop, banned_crops[i])
         IN  (IF crop_match
              THEN <<[name |-> Get(chem, "name", sEmpty),
                      reason |-> sRestrictedPrefix \o restriction,
                      category |-> "restricted",
                      notification |-> Get(chem, "notification", sEmpty)]>>
              ELSE <<>>)
             \o RestrictedFindings(Tail(chems), crop)

\* get_banned_chemicals_for_crop with the loops of lines 97 and 105 exchanged
resolver_swapped_order(data, crop) ==
    IF ~Truthy(data) THEN <<>>
    ELSE UniversalFindings(Chemicals(data, "banned"), sReasonBanned, "banned")
         \o UniversalFindings(Chemicals(data, "banned_for_export_only"),
                              sReasonExport, "banned")
         \o UniversalFindings(Chemicals(data, "refused_registration"),
                              sReasonRefused, "refused")
         \o UniversalFindings(Chemicals(data, "withdrawn"),
                              sReasonWithdrawn, "withdrawn")
         \o RestrictedFindings(Chemicals(data, "restricted"), crop)

\* the body of get_banned_chemicals_for_crop once data = _load_banned_data()
get_banned_chemicals_for_crop(data, crop) ==
    IF ~Truthy(data) THEN <<>>
    ELSE UniversalFindings(Chemicals(data, "banned"), sReasonBanned, "banned")
         \o UniversalFindings(Chemicals(data, "banned_for_export_only"),
                              sReasonExport, "banned")
         \o UniversalFindings(Chemicals(data, "withdrawn"),
                              sReasonWithdrawn, "withdrawn")
         \o UniversalFindings(Chemicals(data, "refused_registration"),
                              sReasonRefused, "refused")
         \o RestrictedFindings(Chemicals(data, "restricted"), crop)

----------------------------------------------------------------------------
(* _build_search_patterns, scan_text_for_banned                            *)

\* the inner loop of lines 150-153: the aliases of the first chemical of the
\* section whose normalized name equals the entry's, then break
SectionAliases(chems, name) ==
    LET hits == {i \in 1..Len(chems) :
                    _normalize(Get(chems[i], "name", sEmpty)) = _normalize(name)}
    IN  IF hits = {} THEN <<>>
        ELSE LET first == CHOOSE i \in hits : \A j \in hits : i <= j
             IN  Get(chems[first], "aliases", <<>>)

AllNames(data, name) ==
    <<name>> \o Concat([k \in 1..Len(SectionKeys) |->
                           SectionAliases(Chemicals(data, SectionKeys[k]), name)])

EntryPatterns(data, entry) ==
    LET names == SelectSeq(AllNames(data, entry.name), LAMBDA n : n # sEmpty)
    IN  [i \in 1..Len(names) |->
            [pattern |-> names[i], name |-> entry.name, reason |-> entry.reason]]

_build_search_patterns(data, crop) ==
    LET banned == get_banned_chemicals_for_crop(data, crop)
    IN  Concat([i \in 1..Len(banned) |-> EntryPatterns(data, banned[i])])

RECURSIVE ScanLoop(_, _, _, _)
ScanLoop(patterns, text, found, seen_names) ==
    IF patterns = <<>> THEN found
    ELSE LET p == Head(patterns)
         IN  IF p.name \in seen_names
             THEN ScanLoop(Tail(patterns), text, found, seen_names)
             ELSE IF PatternSearch(p.pattern, text)
             THEN ScanLoop(Tail(patterns), text,
                           Append(found, [name |-> p.name, reason |-> p.reason]),
                           seen_names \cup {p.name})
             ELSE ScanLoop(Tail(patterns), text, found, seen_names)

\* the body of scan_text_for_banned once data = _load_banned_data()
scan_text_for_banned(data, text, crop) ==
    IF text = sEmpty \/ crop = sEmpty THEN <<>>
    ELSE ScanLoop(_build_search_patterns(data, crop), text, <<>>, {})

----------------------------------------------------------------------------
(* inject_rag_warnings                                                     *)

\* lines 207-212: dedupe by m["name"], first seen first
RECURSIVE Dedupe(_, _)
Dedupe(matches, seen) ==
    IF matches = <<>> THEN <<>>
    ELSE IF Head(matches).name \in seen THEN Dedupe(Tail(matches), seen)
    ELSE <<Head(matches)>> \o Dedupe(Tail(matches), seen \cup {Head(matches).name})

\* the f-string of lines 218-220: its text is fixed but for these three fields
Warning(m, crop) ==
    [template |-> "BANNED: {name} is banned for {crop} per CIB&RC India. Reason: {reason}. ...",
     name |-> m.name, crop |-> crop, reason |-> m.reason]

\* the matches of one entry, lines 201-204
EntryMatches(data, evidence_list, crop) ==
    Concat([i \in 1..Len(evidence_list) |->
               scan_text_for_banned(data, evidence_list[i], crop)])

\* one iteration of the loop of lines 196-228
AnnotateEntry(data, entry, crop) ==
    LET evidence_list == Get(entry, "evidence", <<>>)
    IN  IF evidence_list = <<>> THEN entry
        ELSE LET unique_matches == Dedupe(EntryMatches(data, evidence_list, crop), {})
                 warnings == [i \in 1..Len(unique_matches) |->
                                 Warning(unique_matches[i], crop)]
             IN  IF unique_matches = <<>> THEN entry
                 ELSE [k \in DOMAIN entry \cup {"safety_warnings"} |->
                          IF k = "safety_warnings" THEN warnings ELSE entry[k]]

\* the body of inject_rag_warnings, data being what _load_banned_data returns
inject_rag_warnings(data, rag_results, crop) ==
    IF rag_results = <<>> \/ crop = sEmpty THEN rag_results
    ELSE [i \in 1..Len(rag_results) |-> AnnotateEntry(data, rag_results[i], crop)]

\* whether inject_rag_warnings reaches scan_text_for_banned past its line 171,
\* which is where _load_banned_data is called
InjectLoads(rag_results, crop) ==
    /\ rag_results # <<>>
    /\ crop # sEmpty
    /\ \E i \in 1..Len(rag_results) :
          LET ev == Get(rag_results[i], "evidence", <<>>)
          IN  \E j \in 1..Len(ev) : ev[j] # sEmpty

----------------------------------------------------------------------------
(* get_auditor_safety_instruction: the text is the sequence of its lines,  *)
(* the empty string the empty sequence.                                    *)

\* get_auditor_safety_instruction without the test of line 259, counting every
\* Finding
instruction_always_summary(data, crop) ==
    LET banned == get_banned_chemicals_for_crop(data, crop)
        restricted == SelectSeq(banned, LAMBDA b : b.category = "restricted")
    IN  IF banned = <<>> THEN <<>>
        ELSE <<[kind |-> "header", crop |-> Upper(crop)],
               [kind |-> "directive"],
               [kind |-> "blank"]>>
             \o (IF restricted # <<>>
                 THEN <<[kind |-> "restricted_header", crop |-> Upper(crop)]>>
                      \o [i \in 1..Len(restricted) |->
                             [kind |-> "item", name |-> restricted[i].name,
                              reason |-> restricted[i].reason]]
                      \o <<[kind |-> "blank"]>>
                 ELSE <<>>)
             \o <<[kind |-> "summary", count |-> Len(banned)], [kind |-> "blank"]>>
             \o <<[kind |-> "closing"]>>

get_auditor_safety_instruction(data, crop) ==
    LET banned == get_banned_chemicals_for_crop(data, crop)
        fully_banned == SelectSeq(banned, LAMBDA b : b.category \in {"banned", "refused", "withdrawn"})
        restricted == SelectSeq(banned, LAMBDA b : b.category = "restricted")
    IN  IF banned = <<>> THEN <<>>
        ELSE <<[kind |-> "header", crop |-> Upper(crop)],
               [kind |-> "directive"],
               [kind |-> "blank"]>>
             \o (IF restricted # <<>>
                 THEN <<[kind |-> "restricted_header", crop |-> Upper(crop)]>>
                      \o [i \in 1..Len(restricted) |->
                             [kind |-> "item", name |-> restricted[i].name,
                              reason |-> restricted[i].reason]]
                      \o <<[kind |-> "blank"]>>
                 ELSE <<>>)
             \o (IF fully_banned # <<>>
                 THEN <<[kind |-> "summary", count |-> Len(fully_banned)],
                        [kind |-> "blank"]>>
                 ELSE <<>>)
             \o <<[kind |-> "closing"]>>

----------------------------------------------------------------------------
(* The dataset file and _load_banned_data.                                 *)

FileMissing == [kind |-> "missing"]
FileBadJson == [kind |-> "bad_json"]
FileBadUtf8 == [kind |-> "bad_utf8"]
FileJson(v) == [kind |-> "json", value |-> v]

\* lines 30-31: open(...) and json.load(f); exc is "none" or the exception raised
ReadFile(f) ==
    IF f.kind = "missing" THEN [exc |-> "FileNotFoundError", value |-> PyNone]
    ELSE IF f.kind = "bad_json" THEN [exc |-> "JSONDecodeError", value |-> PyNone]
    ELSE IF f.kind = "bad_utf8" THEN [exc |-> "UnicodeDecodeError", value |-> PyNone]
    ELSE [exc |-> "none", value |-> f.value]

\* line 32: except (FileNotFoundError, json.JSONDecodeError)
Caught(exc) == exc \in {"FileNotFoundError", "JSONDecodeError"}

\* One whole call of _load_banned_data with no other thread running:
\* what it raises, what it returns, and what it leaves in _BANNED_DATA.
LoadCall(cache, f) ==
    IF cache # PyNone THEN [exc |-> "none", value |-> cache, cache |-> cache]
    ELSE LET r == ReadFile(f)
         IN  IF r.exc = "none"
             THEN [exc |-> "none", value |-> r.value, cache |-> r.value]
             ELSE IF Caught(r.exc)
             THEN [exc |-> "none", value |-> PyDict(EmptyDict), cache |-> PyDict(EmptyDict)]
             ELSE [exc |-> r.exc, value |-> PyNone, cache |-> cache]

----------------------------------------------------------------------------
(* The inputs: substance records, datasets, crops, texts, RAG results.     *)

Endosulfan == [name |-> sEndosulfan, aliases |-> <<sThiodan>>]
EndosulfanLowerCase == [name |-> sEndosulfanLower]
EndosulfanAgain == [name |-> sEndosulfan, aliases |-> <<sThionex>>]
Phorate == [name |-> sPhorate, aliases |-> <<>>]
RestrictedMonocrotophos ==
    [name |-> sMonocrotophos, aliases |-> <<sMonocil>>,
     banned_crops |-> <<sCottonLower>>, restriction |-> sNotForCotton,
     notification |-> sNotification]
RestrictedPhorate ==
    [name |-> sPhorate, aliases |-> <<>>,
     banned_crops |-> <<sEmpty, sWheatPadded>>, restriction |-> sNotForWheat]
RestrictedEndosulfan ==
    [name |-> sEndosulfan, aliases |-> <<sThionex>>,
     banned_crops |-> <<sCottonFarming>>, restriction |-> sSeedOnly,
     notification |-> sEmpty]

\* (section, record) pairs a dataset is assembled from
Placements ==
    {<<"banned", Endosulfan>>, <<"banned", EndosulfanAgain>>, <<"banned", Phorate>>,
     <<"banned_for_export_only", Phorate>>, <<"banned_for_export_only", EndosulfanLowerCase>>,
     <<"withdrawn", EndosulfanLowerCase>>, <<"withdrawn", Phorate>>,
     <<"refused_registration", Phorate>>, <<"refused_registration", EndosulfanAgain>>,
     <<"restricted", RestrictedMonocrotophos>>, <<"restricted", RestrictedPhorate>>,
     <<"restricted", RestrictedEndosulfan>>}

PlacementSeqs == UNION {[1..k -> Placements] : k \in 0..MaxChems}

\* the parsed JSON object holding the placed records, in their order
DataFromPlacements(ps) ==
    [key \in {ps[i][1] : i \in 1..Len(ps)} |->
        [chemicals |->
            LET sel == SelectSeq(ps, LAMBDA q : q[1] = key)
            IN  [i \in 1..Len(sel) |-> sel[i][2]]]]

Datasets ==
    {DataFromPlacements(ps) : ps \in PlacementSeqs}
    \cup {[key \in {"banned", "restricted"} |-> [chemicals |-> <<>>]],
          [key \in {"withdrawn"} |-> EmptyDict]}

Files ==
    {FileMissing, FileBadJson, FileBadUtf8, FileJson(PyNone)}
    \cup {FileJson(PyDict(d)) : d \in Datasets}

Crops == {sEmpty, sCotton, sCottonFarming, sWheat, sCottonPadded}
Texts == {sEmpty, tAliasOnly, tNameAndAlias, tSecondAlias, tMixed, tClean}

StaleWarning == [template |-> "stale", name |-> sEmpty, crop |-> sEmpty, reason |-> sEmpty]
EntryPool ==
    {[title |-> sWheat],
     [evidence |-> <<tAliasOnly, tNameAndAlias>>],
     [evidence |-> <<tMixed, tSecondAlias>>, safety_warnings |-> <<StaleWarning>>],
     [evidence |-> <<tClean, sEmpty>>, safety_warnings |-> <<StaleWarning>>]}
RagInputs == UNION {[1..k -> EntryPool] : k \in 0..MaxResults}

----------------------------------------------------------------------------
(* The public entry points, called one after the other: a call runs to   *)
(* its end, its outcome is in last until the caller is done with it.     *)

Threads == 1..NThreads
NoCall == [op |-> "none", crop |-> sEmpty, text |-> sEmpty, results |-> <<>>,
           exc |-> "none", out |-> <<>>]
NoRet == [exc |-> "pending", value |-> PyNone]

LoadIdle ==
    /\ pc = [t \in Threads |-> "idle"]
    /\ parsed = [t \in Threads |-> PyNone]
    /\ ret = [t \in Threads |-> NoRet]
    /\ firstWave = [t \in Threads |-> FALSE]
    /\ calls = [t \in Threads |-> 0]
    /\ completed = FALSE
    /\ raceReads = 0
    /\ lateReads = 0
    /\ fileChanges = 0

Init ==
    /\ file \in Files
    /\ BANNED_DATA = PyNone
    /\ last = NoCall
    /\ LoadIdle

GetBanned(crop) ==
    LET l == LoadCall(BANNED_DATA, file)
    IN  /\ last = NoCall
        /\ BANNED_DATA' = l.cache
        /\ last' = [op |-> "get_banned_chemicals_for_crop", crop |-> crop,
                    text |-> sEmpty, results |-> <<>>, exc |-> l.exc,
                    out |-> IF l.exc = "none"
                            THEN get_banned_chemicals_for_crop(l.value, crop)
                            ELSE <<>>]
        /\ UNCHANGED <<file, loadVars>>

ScanText(text, crop) ==
    LET loads == text # sEmpty /\ crop # sEmpty
        l == LoadCall(BANNED_DATA, file)
    IN  /\ last = NoCall
        /\ BANNED_DATA' = IF loads THEN l.cache ELSE BANNED_DATA
        /\ last' = [op |-> "scan_text_for_banned", crop |-> crop, text |-> text,
                    results |-> <<>>,
                    exc |-> IF loads THEN l.exc ELSE "none",
                    out |-> IF loads /\ l.exc = "none"
                            THEN scan_text_for_banned(l.value, text, crop)
                            ELSE <<>>]
        /\ UNCHANGED <<file, loadVars>>

InjectWarnings(rag_results, crop) ==
    LET loads == InjectLoads(rag_results, crop)
        l == LoadCall(BANNED_DATA, file)
    IN  /\ last = NoCall
        /\ BANNED_DATA' = IF loads THEN l.cache ELSE BANNED_DATA
        /\ last' = [op |-> "inject_rag_warnings", crop |-> crop, text |-> sEmpty,
                    results |-> rag_results,
                    exc |-> IF loads THEN l.exc ELSE "none",
                    out |-> IF loads /\ l.exc # "none" THEN <<>>
                            ELSE inject_rag_warnings(l.value, rag_results, crop)]
        /\ UNCHANGED <<file, loadVars>>

AuditorInstruction(crop) ==
    LET l == LoadCall(BANNED_DATA, file)
    IN  /\ last = NoCall
        /\ BANNED_DATA' = l.cache
        /\ last' = [op |-> "get_auditor_safety_instruction", crop |-> crop,
                    text |-> sEmpty, results |-> <<>>, exc |-> l.exc,
                    out |-> IF l.exc = "none"
                            THEN get_auditor_safety_instruction(l.value, crop)
                            ELSE <<>>]
        /\ UNCHANGED <<file, loadVars>>

\* the caller is done with the outcome of its call
Consume ==
    /\ last # NoCall
    /\ last' = NoCall
    /\ UNCHANGED <<file, BANNED_DATA, loadVars>>

Next ==
    \/ \E crop \in Crops : GetBanned(crop)
    \/ \E text \in Texts, crop \in Crops : ScanText(text, crop)
    \/ \E rag_results \in RagInputs, crop \in Crops : InjectWarnings(rag_results, crop)
    \/ \E crop \in Crops : AuditorInstruction(crop)
    \/ Consume

Spec == Init /\ [][Next]_vars

----------------------------------------------------------------------------
(* Properties of the public entry points, checked under Spec.              *)

FileIsDataset == file.kind = "json" /\ file.value.tag = "dict"
Returned(op) == last.op = op /\ last.exc = "none"

UniversalCount(data) ==
    Len(Chemicals(data, "banned")) + Len(Chemicals(data, "banned_for_export_only"))
    + Len(Chemicals(data, "withdrawn")) + Len(Chemicals(data, "refused_registration"))

\* C4 as stated: with a loaded dataset, every public entry point called with an
\* empty crop (scan_text_for_banned also with an empty text) returns the empty
\* or no-op result: an empty sequence, the input unchanged, the empty string.
C4_EmptyCropYieldsEmptyResult ==
    FileIsDataset =>
        /\ (last.op = "get_banned_chemicals_for_crop" /\ last.crop = sEmpty)
              => (last.exc = "none" /\ last.out = <<>>)
        /\ (last.op = "scan_text_for_banned" /\ (last.crop = sEmpty \/ last.text = sEmpty))
              => (last.exc = "none" /\ last.out = <<>>)
        /\ (last.op = "inject_rag_warnings" /\ last.crop = sEmpty)
              => (last.exc = "none" /\ last.out = last.results)
        /\ (last.op = "get_auditor_safety_instruction" /\ last.crop = sEmpty)
              => (last.exc = "none" /\ last.out = <<>>)

\* C4 as amended: with a loaded dataset and an empty crop, no entry point fails;
\* scan_text_for_banned (also with an empty text) returns an empty sequence and
\* inject_rag_warnings its input unchanged; get_banned_chemicals_for_crop
\* returns one Finding per entry of the four universal categories and no
\* restricted Finding, and get_auditor_safety_instruction returns the empty
\* string exactly when those four categories hold no entry.
C4_EmptyCropAmended ==
    FileIsDataset =>
        /\ (last.op = "scan_text_for_banned" /\ (last.crop = sEmpty \/ last.text = sEmpty))
              => (last.exc = "none" /\ last.out = <<>>)
        /\ (last.op = "inject_rag_warnings" /\ last.crop = sEmpty)
              => (last.exc = "none" /\ last.out = last.results)
        /\ (last.op = "get_banned_chemicals_for_crop" /\ last.crop = sEmpty)
              => /\ last.exc = "none"
                 /\ Len(last.out) = UniversalCount(file.value)
                 /\ \A i \in 1..Len(last.out) : last.out[i].category # "restricted"
        /\ (last.op = "get_auditor_safety_instruction" /\ last.crop = sEmpty)
              => /\ last.exc = "none"
                 /\ (last.out = <<>>) <=> (UniversalCount(file.value) = 0)

C4_Witness ==
    /\ FileIsDataset
    /\ last.op = "get_auditor_safety_instruction"
    /\ last.crop = sEmpty
    /\ last.out # <<>>
    /\ Chemicals(file.value, "restricted") # <<>>

\* C5: for every crop and every non-empty dataset, the result of
\* get_banned_chemicals_for_crop starts with one Finding per entry of banned,
\* banned_for_export_only, withdrawn and refused_registration, in that order,
\* tagged banned, banned, withdrawn and refused with the category's fixed
\* reason, whatever the crop; everything after them is a restricted Finding.
C5_UniversalFindingsForEveryCrop ==
    (Returned("get_banned_chemicals_for_crop") /\ Truthy(BANNED_DATA)) =>
        LET out == last.out
            b == Chemicals(BANNED_DATA, "banned")
            e == Chemicals(BANNED_DATA, "banned_for_export_only")
            w == Chemicals(BANNED_DATA, "withdrawn")
            r == Chemicals(BANNED_DATA, "refused_registration")
            n == Len(b) + Len(e) + Len(w) + Len(r)
        IN  /\ Len(out) >= n
            /\ \A i \in 1..Len(b) :
                  out[i] = [name |-> b[i].name, reason |-> sReasonBanned,
                            category |-> "banned"]
            /\ \A i \in 1..Len(e) :
                  out[Len(b) + i] = [name |-> e[i].name, reason |-> sReasonExport,
                                     category |-> "banned"]
            /\ \A i \in 1..Len(w) :
                  out[Len(b) + Len(e) + i] =
                      [name |-> w[i].name, reason |-> sReasonWithdrawn,
                       category |-> "withdrawn"]
            /\ \A i \in 1..Len(r) :
                  out[Len(b) + Len(e) + Len(w) + i] =
                      [name |-> r[i].name, reason |-> sReasonRefused,
                       category |-> "refused"]
            /\ \A i \in (n + 1)..Len(out) : out[i].category = "restricted"

C5_Witness ==
    /\ Returned("get_banned_chemicals_for_crop")
    /\ Truthy(BANNED_DATA)
    /\ last.crop = sWheat
    /\ Chemicals(BANNED_DATA, "withdrawn") # <<>>
    /\ Chemicals(BANNED_DATA, "refused_registration") # <<>>
    /\ Len(last.out) = 2

\* crop-match as the claim words it
CropMatchAsStated(crop, banned_crop) ==
    LET c == Lower(Strip(crop))
        b == Lower(Strip(banned_crop))
    IN  c # <<>> /\ b # <<>> /\ (c = b \/ IsSubstr(c, b) \/ IsSubstr(b, c))

\* C6: the restricted Findings of get_banned_chemicals_for_crop(crop) are, in
\* order, those of the restricted entries one of whose banned_crops
\* crop-matches the crop (category restricted, reason "Restricted: " +
\* restriction, notification copied), crop-match being: trimmed and lower-cased,
\* both non-empty and equal or one inside the other; banned_crops = ["cotton"]
\* is in for "Cotton" and "cotton farming" and out for "wheat".
C6_RestrictedIffCropMatches ==
    /\ CropMatchAsStated(sCotton, sCottonLower)
    /\ CropMatchAsStated(sCottonFarming, sCottonLower)
    /\ ~CropMatchAsStated(sWheat, sCottonLower)
    /\ (Returned("get_banned_chemicals_for_crop") /\ Truthy(BANNED_DATA)) =>
          LET chems == Chemicals(BANNED_DATA, "restricted")
              hit == SelectSeq(chems, LAMBDA ch :
                        \E i \in 1..Len(Get(ch, "banned_crops", <<>>)) :
                            CropMatchAsStated(last.crop, ch.banned_crops[i]))
              got == SelectSeq(last.out, LAMBDA f : f.category = "restricted")
          IN  got = [i \in 1..Len(hit) |->
                        [name |-> hit[i].name,
                         reason |-> sRestrictedPrefix \o Get(hit[i], "restriction", sEmpty),
                         category |-> "restricted",
                         notification |-> Get(hit[i], "notification", sEmpty)]]

C6_Witness ==
    /\ Returned("get_banned_chemicals_for_crop")
    /\ Truthy(BANNED_DATA)
    /\ last.crop = sCottonFarming
    /\ Chemicals(BANNED_DATA, "restricted") = <<RestrictedPhorate, RestrictedMonocrotophos>>
    /\ Len(last.out) = 1
    /\ last.out[1].name = sMonocrotophos

\* C7: the result of scan_text_for_banned holds each substance at most once,
\* a substance being its normalized (case- and whitespace-insensitive) name.
C7_ScanReportsEachSubstanceOnce ==
    Returned("scan_text_for_banned") =>
        \A i, j \in 1..Len(last.out) :
            i # j => _normalize(last.out[i].name) # _normalize(last.out[j].name)

\* every record of the dataset that stands for the substance called name
SubstanceRecords(data, name) ==
    UNION {{Chemicals(data, SectionKeys[k])[i] :
               i \in {j \in 1..Len(Chemicals(data, SectionKeys[k])) :
                         _normalize(Get(Chemicals(data, SectionKeys[k])[j], "name", sEmpty))
                             = _normalize(name)}} :
           k \in 1..Len(SectionKeys)}

Occurs(n, text) == n # sEmpty /\ IsSubstr(Lower(n), Lower(text))

NameOrAliasOccurs(data, name, text) ==
    \/ Occurs(name, text)
    \/ \E rec \in SubstanceRecords(data, name) :
          \E i \in 1..Len(Get(rec, "aliases", <<>>)) : Occurs(rec.aliases[i], text)

RECURSIVE FirstOccurrences(_, _)
FirstOccurrences(names, seen) ==
    IF names = <<>> THEN <<>>
    ELSE IF Head(names) \in seen THEN FirstOccurrences(Tail(names), seen)
    ELSE <<Head(names)>> \o FirstOccurrences(Tail(names), seen \cup {Head(names)})

\* C8: for a non-empty text and crop, scan_text_for_banned reports exactly the
\* substances that are Findings of the resolver for the crop and whose
\* canonical name or one of whose aliases occurs in the text, case-insensitively,
\* and reports them in the order the resolver emits them.
C8_ScanReportsIffNameOrAliasOccurs ==
    (Returned("scan_text_for_banned") /\ last.text # sEmpty /\ last.crop # sEmpty
        /\ Truthy(BANNED_DATA)) =>
        LET findings == get_banned_chemicals_for_crop(BANNED_DATA, last.crop)
            due == SelectSeq(findings, LAMBDA f :
                       NameOrAliasOccurs(BANNED_DATA, f.name, last.text))
        IN  [i \in 1..Len(last.out) |-> last.out[i].name]
                = FirstOccurrences([i \in 1..Len(due) |-> due[i].name], {})

\* the substances scan_text_for_banned matches in the evidence of one entry
MatchedSubstances(data, entry, crop) ==
    LET ev == Get(entry, "evidence", <<>>)
    IN  UNION {{_normalize(scan_text_for_banned(data, ev[j], crop)[k].name) :
                   k \in 1..Len(scan_text_for_banned(data, ev[j], crop))} :
               j \in 1..Len(ev)}

\* C9: inject_rag_warnings returns the same sequence with each entry's evidence
\* untouched; an entry with no match is exactly as it was, and an entry with
\* matches differs only in safety_warnings, which then holds as many warnings
\* as there are distinct substances matched across its evidence strings.
C9_OneWarningPerMatchedSubstance ==
    Returned("inject_rag_warnings") =>
        /\ Len(last.out) = Len(last.results)
        /\ \A i \in 1..Len(last.out) :
              LET before == last.results[i]
                  after == last.out[i]
                  matched == MatchedSubstances(BANNED_DATA, before, last.crop)
              IN  IF matched = {}
                  THEN after = before
                  ELSE /\ DOMAIN after = DOMAIN before \cup {"safety_warnings"}
                       /\ \A k \in DOMAIN before \ {"safety_warnings"} :
                             after[k] = before[k]
                       /\ Len(after.safety_warnings) = Cardinality(matched)

\* C10: get_auditor_safety_instruction returns the empty string exactly when
\* the resolver yields no Finding for the crop; otherwise its text lists every
\* restricted Finding as name (reason), in order, and holds the "completely
\* banned" summary sentence exactly when some Finding is banned, refused or
\* withdrawn, the count in the sentence being the number of those Findings.
C10_InstructionMatchesFindings ==
    Returned("get_auditor_safety_instruction") =>
        LET findings == get_banned_chemicals_for_crop(BANNED_DATA, last.crop)
            full == {i \in 1..Len(findings) :
                        findings[i].category \in {"banned", "refused", "withdrawn"}}
            restricted == SelectSeq(findings, LAMBDA f : f.category = "restricted")
            items == SelectSeq(last.out, LAMBDA ln : ln.kind = "item")
            summaries == SelectSeq(last.out, LAMBDA ln : ln.kind = "summary")
        IN  /\ (last.out = <<>>) <=> (findings = <<>>)
            /\ findings # <<>> =>
                  /\ items = [i \in 1..Len(restricted) |->
                                 [kind |-> "item", name |-> restricted[i].name,
                                  reason |-> restricted[i].reason]]
                  /\ (summaries # <<>>) <=> (full # {})
                  /\ Len(summaries) <= 1
                  /\ \A i \in 1..Len(summaries) : summaries[i].count = Cardinality(full)

C10_Witness ==
    /\ Returned("get_auditor_safety_instruction")
    /\ Truthy(BANNED_DATA)
    /\ Chemicals(BANNED_DATA, "restricted") = <<RestrictedMonocrotophos>>
    /\ UniversalCount(BANNED_DATA) = 0
    /\ last.crop = sCotton
    /\ \E i \in 1..Len(last.out) : last.out[i].kind = "item"
    /\ \A i \in 1..Len(last.out) : last.out[i].kind # "summary"

----------------------------------------------------------------------------
(* _load_banned_data called from several threads. The interpreter runs one *)
(* thread at a time and may switch between any two of these steps: the     *)
(* test of line 26, the read and parse of lines 30-31, the store into the  *)
(* global (line 31 or 34) and the read of the global for the return of     *)
(* line 27 or 36.                                                          *)

SmallDataset == DataFromPlacements(<<<<"banned", Endosulfan>>>>)
OtherDataset == DataFromPlacements(<<<<"restricted", RestrictedPhorate>>>>)
LoadFiles ==
    {FileMissing, FileBadJson, FileBadUtf8, FileJson(PyNone),
     FileJson(PyDict(SmallDataset)), FileJson(PyDict(OtherDataset))}

InitLoad ==
    /\ file \in LoadFiles
    /\ BANNED_DATA = PyNone
    /\ last = NoCall
    /\ LoadIdle

\* a thread calls _load_banned_data
Call(t) ==
    /\ pc[t] = "idle"
    /\ calls[t] < MaxCalls
    /\ pc' = [pc EXCEPT ![t] = "l26"]
    /\ calls' = [calls EXCEPT ![t] = @ + 1]
    /\ firstWave' = [firstWave EXCEPT ![t] = ~completed]
    /\ UNCHANGED <<file, BANNED_DATA, last, parsed, ret, completed, raceReads,
                   lateReads, fileChanges>>

\* line 26: if _BANNED_DATA is not None
Check(t) ==
    /\ pc[t] = "l26"
    /\ pc' = [pc EXCEPT ![t] = IF BANNED_DATA # PyNone THEN "l27" ELSE "l30"]
    /\ UNCHANGED <<file, BANNED_DATA, last, parsed, ret, firstWave, calls,
                   completed, raceReads, lateReads, fileChanges>>

\* lines 30-31: open the file and json.load it
Read(t) ==
    /\ pc[t] = "l30"
    /\ raceReads' = IF firstWave[t] THEN raceReads + 1 ELSE raceReads
    /\ lateReads' = IF firstWave[t] THEN lateReads ELSE lateReads + 1
    /\ LET r == ReadFile(file)
       IN  IF r.exc = "none"
           THEN /\ parsed' = [parsed EXCEPT ![t] = r.value]
                /\ pc' = [pc EXCEPT ![t] = "l31"]
                /\ UNCHANGED <<ret, completed>>
           ELSE IF Caught(r.exc)
           THEN /\ pc' = [pc EXCEPT ![t] = "l34"]
                /\ UNCHANGED <<parsed, ret, completed>>
           ELSE /\ ret' = [ret EXCEPT ![t] = [exc |-> r.exc, value |-> PyNone]]
                /\ pc' = [pc EXCEPT ![t] = "idle"]
                /\ completed' = TRUE
                /\ UNCHANGED parsed
    /\ UNCHANGED <<file, BANNED_DATA, last, firstWave, calls, fileChanges>>

\* line 31: _BANNED_DATA = <the parsed value>; line 34: _BANNED_DATA = {}
Store(t) ==
    /\ pc[t] \in {"l31", "l34"}
    /\ BANNED_DATA' = IF pc[t] = "l31" THEN parsed[t] ELSE PyDict(EmptyDict)
    /\ parsed' = [parsed EXCEPT ![t] = PyNone]
    /\ pc' = [pc EXCEPT ![t] = "l36"]
    /\ UNCHANGED <<file, last, ret, firstWave, calls, completed, raceReads,
                   lateReads, fileChanges>>

\* line 27 and line 36: return _BANNED_DATA, the global as it is now
Return(t) ==
    /\ pc[t] \in {"l27", "l36"}
    /\ ret' = [ret EXCEPT ![t] = [exc |-> "none", value |-> BANNED_DATA]]
    /\ pc' = [pc EXCEPT ![t] = "idle"]
    /\ completed' = TRUE
    /\ UNCHANGED <<file, BANNED_DATA, last, parsed, firstWave, calls, raceReads,
                   lateReads, fileChanges>>

\* the file at _BANNED_DATA_PATH is replaced, removed or repaired
FileChange ==
    /\ fileChanges < MaxFileChanges
    /\ fileChanges' = fileChanges + 1
    /\ \E f \in LoadFiles \ {file} : file' = f
    /\ UNCHANGED <<BANNED_DATA, last, pc, parsed, ret, firstWave, calls,
                   completed, raceReads, lateReads>>

NextLoad ==
    \/ \E t \in Threads : Call(t)
    \/ \E t \in Threads : Check(t)
    \/ \E t \in Threads : Read(t)
    \/ \E t \in Threads : Store(t)
    \/ \E t \in Threads : Return(t)
    \/ FileChange

SpecLoad == InitLoad /\ [][NextLoad]_vars

\* C1: the callers that race on the first access (calls begun before any call
\* has completed) read and parse the file at most once between them.
C1_RacingCallersReadAtMostOnce == raceReads <= 1

\* C2: once _BANNED_DATA holds a value it is never overwritten with a different
\* one, so every call returns the same dataset.
C2_CacheNeverOverwritten ==
    [][BANNED_DATA # PyNone => BANNED_DATA' = BANNED_DATA]_vars

\* C3: once a first call has completed, whatever its outcome, no call begun
\* later reads the file.
C3_NoReadAfterFirstCall == lateReads = 0

====
